---- MODULE Spec2Model ----
(***************************************************************************)
(* A model of src/src/lib.rs (dumpspace-api): the DSAPI object, the        *)
(* ingestion of the four layout documents by DSAPI::download_content and   *)
(* the query methods over the four lookup tables.                          *)
(*                                                                         *)
(* download_content is modelled step by step: one action per document      *)
(* fetch (download_url + serde_json::from_str) and one action per record   *)
(* of a document's loop.  The documents are the inputs: every step draws   *)
(* the next record of the current document from a small set, so a run of   *)
(* the model is the ingestion of one possible sequence of documents.       *)
(* A panic (unwrap, expect, assert!, indexing, the explicit panic!) ends   *)
(* download_content at the step where it happens and leaves the tables as  *)
(* they are at that step: the maps are mutated in place through &mut self. *)
(***************************************************************************)
EXTENDS Integers, Sequences, FiniteSets, TLC

VARIABLES
    class_member_map,   \* DSAPI.class_member_map: key string -> OffsetInfo
    class_size_map,     \* DSAPI.class_size_map: type name -> i32
    enum_name_map,      \* DSAPI.enum_name_map: key string -> value name
    offset_map,         \* DSAPI.offset_map: offset name -> u64
    pc,                 \* "new" | "ingest" | "done" | "panicked"
    doc,                \* the document download_content is at ("none" before)
    version,            \* BlobInfo.version of the class/struct document at hand
    input,              \* the last input handed to download_content's step
    ret,                \* the last query call and what it returned
    ingested,           \* history: the member and enum records inserted so far
    contrib,            \* history: what the document at hand has written
    completed,          \* history: download_content has returned Ok(()) once
    builds,             \* number of download_content calls so far
    records             \* number of records consumed so far

vars == <<class_member_map, class_size_map, enum_name_map, offset_map, pc, doc,
          version, input, ret, ingested, contrib, completed, builds, records>>

tables == <<class_member_map, class_size_map, enum_name_map, offset_map>>

-----------------------------------------------------------------------------
(* Bounds of the model. *)

\* records consumed by one DSAPI object, over all its download_content calls
MaxRecords == 2
\* calls of download_content on one DSAPI object
MaxBuilds == 2

(* Program constants. *)
VersionA == 10201
VersionB == 10202
I32Max == 2147483647
I32Min == -I32Max - 1

-----------------------------------------------------------------------------
(* Results of calls. *)

None == [kind |-> "None"]
Some(v) == [kind |-> "Some", val |-> v]
Panic == [kind |-> "Panic"]
Returned(v) == [kind |-> "Returned", val |-> v]

(* HashMap<String, V>: a function whose domain is the set of keys. *)
EmptyMap == << >>
MapInsert(m, k, v) == [x \in (DOMAIN m) \cup {k} |-> IF x = k THEN v ELSE m[x]]
MapGet(m, k) == IF k \in DOMAIN m THEN Some(m[k]) ELSE None

(* serde_json::Value, as far as download_content looks at it. *)
JInt(n) == [t |-> "int", v |-> n, s |-> "", a |-> << >>]
JString(str) == [t |-> "str", v |-> 0, s |-> str, a |-> << >>]
JArr(elems) == [t |-> "arr", v |-> 0, s |-> "", a |-> elems]
as_i64(j) == IF j.t = "int" THEN Some(j.v) ELSE None
as_u64(j) == IF j.t = "int" /\ j.v >= 0 THEN Some(j.v) ELSE None
as_str(j) == IF j.t = "str" THEN Some(j.s) ELSE None
as_array(j) == IF j.t = "arr" THEN Some(j.a) ELSE None

(* `x as i32` of an i64: the low 32 bits, read as a signed number.  The    *)
(* integers of the model lie within the i32 range, where it is the value.  *)
AsI32(v) ==
    IF I32Min <= v /\ v <= I32Max THEN v
    ELSE ((v - I32Min) % (65536 * 65536)) + I32Min

(* `x as usize` of an i64 on a 64-bit target: the same 64 bits read as an  *)
(* unsigned number, written pow64 * 2^64 + plus.                           *)
AsUsize(v) == IF v >= 0 THEN [pow64 |-> 0, plus |-> v] ELSE [pow64 |-> 1, plus |-> v]

(* i64::to_string: the decimal digits, with a leading "-" when negative. *)
Digit(d) == SubSeq("0123456789", d + 1, d + 1)
RECURSIVE NatToString(_)
NatToString(n) == IF n < 10 THEN Digit(n) ELSE NatToString(n \div 10) \o Digit(n % 10)
to_string(v) == IF v < 0 THEN "-" \o NatToString(-v) ELSE NatToString(v)

(* OffsetInfo::new *)
OffsetInfo_new == [offset |-> 0, size |-> 0, is_bit |-> FALSE, bit_offset |-> 0, valid |-> FALSE]

-----------------------------------------------------------------------------
(* parse_class_info, one record of one group. *)

SizeMarker == "__MDKClassSize"
InheritMarker == "__InheritInfo"

KnownVersion(v) == v = VersionA \/ v = VersionB

(* info.is_bit: lines 86-92, for a known version *)
IsBit(v, len) == IF v = VersionA THEN len = 4 ELSE len = 5

(* a variant of BitOffsetIndex that reads value_data[3] under both versions *)
BitOffsetIndexOfA(v) == 4

(* the element holding the bit offset: value_data[3] / value_data[4],      *)
(* one more here because sequences start at 1                              *)
BitOffsetIndex(v) == IF v = VersionA THEN 4 ELSE 5

(* &key[..key.len()-4] *)
StripSuffix(key) == SubSeq(key, 1, Len(key) - 4)

(* a variant of MemberKey that never strips the 4-character suffix *)
MemberKeyUnstripped(v, is_bit, class_name, key) == class_name \o key

(* the key a member record is inserted under: lines 99, 102, 108 *)
MemberKey(v, is_bit, class_name, key) ==
    IF is_bit /\ v = VersionA THEN class_name \o StripSuffix(key) ELSE class_name \o key

(* a variant of MarkValid that leaves valid as OffsetInfo::new set it *)
LeaveValid(info) == info

(* info.valid = true: line 93 *)
MarkValid(info) == [info EXCEPT !.valid = TRUE]

(* Lines 81-109 for a member record: a panic, or the key and the record    *)
(* to insert.  The checks come in the order the code makes them.           *)
parse_member(v, class_name, key, value) ==
    IF as_array(value) = None THEN Panic
    ELSE LET value_data == as_array(value).val
             len == Len(value_data)
         IN
         IF len < 2 \/ as_i64(value_data[2]) = None THEN Panic
         ELSE IF len < 3 \/ as_i64(value_data[3]) = None THEN Panic
         ELSE IF ~KnownVersion(v) THEN Panic
         ELSE LET is_bit == IsBit(v, len)
                  info == MarkValid([OffsetInfo_new EXCEPT
                                        !.offset = as_i64(value_data[2]).val,
                                        !.size = as_i64(value_data[3]).val,
                                        !.is_bit = is_bit])
              IN
              IF ~is_bit
              THEN Returned([key |-> MemberKey(v, is_bit, class_name, key), info |-> info])
              ELSE IF as_i64(value_data[BitOffsetIndex(v)]) = None THEN Panic
              ELSE IF v = VersionA /\ Len(key) < 4 THEN Panic
              ELSE Returned([key |-> MemberKey(v, is_bit, class_name, key),
                             info |-> [info EXCEPT !.bit_offset =
                                          AsI32(as_i64(value_data[BitOffsetIndex(v)]).val)]])

(* Lines 69-110 for one record of a group: a panic, the size to write,    *)
(* nothing (the inheritance marker), or the member entry to insert.        *)
class_record(v, rec) ==
    IF ~rec.group_ok THEN Panic
    ELSE IF rec.nkeys /= 1 THEN Panic
    ELSE IF rec.key = SizeMarker
         THEN IF as_i64(rec.value) = None THEN Panic
              ELSE [kind |-> "Size", val |-> AsI32(as_i64(rec.value).val)]
    ELSE IF rec.key = InheritMarker THEN [kind |-> "Skip"]
    ELSE LET r == parse_member(v, rec.class_name, rec.key, rec.value)
         IN IF r = Panic THEN Panic ELSE [kind |-> "Member", val |-> r.val]

(* a variant of EnumInsertKey that drops the sign of the value *)
EnumInsertKeyUnsigned(enum_name, enum_value) ==
    enum_name \o NatToString(IF enum_value < 0 THEN -enum_value ELSE enum_value)

(* the key an enum value is inserted under: line 168 *)
EnumInsertKey(enum_name, enum_value) == enum_name \o to_string(enum_value)

(* Lines 162-168 for one entry of an enum group. *)
enum_entry(rec) ==
    IF ~rec.group_ok THEN Panic
    ELSE IF rec.nkeys /= 1 THEN Panic
    ELSE IF as_i64(rec.value) = None THEN Panic
    ELSE Returned([key |-> EnumInsertKey(rec.enum_name, as_i64(rec.value).val),
                   name |-> rec.name])

(* Line 197 for one element of OffsetBlob.data. *)
offset_entry(offset) ==
    IF Len(offset) < 1 \/ as_str(offset[1]) = None THEN Panic
    ELSE IF Len(offset) < 2 \/ as_u64(offset[2]) = None THEN Panic
    ELSE Returned([key |-> as_str(offset[1]).val, val |-> as_u64(offset[2]).val])

-----------------------------------------------------------------------------
(* The query methods. *)

(* a variant of get_member_offset that unwraps, as the unchecked getter does *)
get_member_offset_unwrap(class_name, member_name) ==
    IF (class_name \o member_name) \in DOMAIN class_member_map
    THEN Some(class_member_map[class_name \o member_name])
    ELSE Panic

get_member_offset(class_name, member_name) ==
    MapGet(class_member_map, class_name \o member_name)

get_class_size(class_name) == MapGet(class_size_map, class_name)

get_enum_name(enum_name, enum_value) ==
    MapGet(enum_name_map, enum_name \o to_string(enum_value))

get_offset(offset_name) == MapGet(offset_map, offset_name)

get_member_offset_unchecked(class_name, member_name) ==
    LET found == MapGet(class_member_map, class_name \o member_name)
    IN IF found = None THEN Panic ELSE Returned(AsUsize(found.val.offset))

-----------------------------------------------------------------------------
(* The inputs: what the remote documents may hold. *)

Versions == {VersionA, VersionB, VersionB + 1}
ClassNames == {"A", "AB"}
MemberNames == {"BC", "C", "C : 1"}
Meta == JString("int32_t")

(* member value arrays of 2 to 6 elements, and values that are no array   *)
(* of integers                                                             *)
Len2 == JArr(<<Meta, JInt(16)>>)
Len3 == JArr(<<Meta, JInt(16), JInt(4)>>)
Len3Neg == JArr(<<Meta, JInt(-8), JInt(4)>>)
Len3Str == JArr(<<Meta, JString("16"), JInt(4)>>)
Len4 == JArr(<<Meta, JInt(16), JInt(4), JInt(3)>>)
Len5 == JArr(<<Meta, JInt(16), JInt(4), JInt(0), JInt(2)>>)
Len6 == JArr(<<Meta, JInt(16), JInt(4), JInt(0), JInt(2), JInt(1)>>)

ClassRecord(c, ok, n, k, v) ==
    [kind |-> "class_record", class_name |-> c, group_ok |-> ok, nkeys |-> n,
     key |-> k, value |-> v]

ClassRecords ==
    {ClassRecord("A", TRUE, 1, SizeMarker, v) : v \in {JInt(8), JString("8")}}
    \cup {ClassRecord("A", TRUE, 1, InheritMarker, JArr(<<JString("UObject")>>))}
    \cup {ClassRecord("A", TRUE, 1, "BC", v) : v \in {Len3, Len3Neg, Len5}}
    \cup {ClassRecord("AB", TRUE, 1, "C", Len3)}
    \cup {ClassRecord("A", TRUE, 1, "C", Len4)}
    \cup {ClassRecord("A", TRUE, 1, "C : 1", v) : v \in {Len2, Len3Str, Len4, Len6}}
    \cup {ClassRecord("A", TRUE, 2, "C", Len3)}

EnumNames == {"E", "E1"}
EnumValues == {-1, 0, 2, 12}

EnumRecord(e, ok, n, name, v) ==
    [kind |-> "enum_entry", enum_name |-> e, group_ok |-> ok, nkeys |-> n,
     name |-> name, value |-> v]

EnumRecords ==
    {EnumRecord("E", TRUE, 1, "Red", v) : v \in {JInt(-1), JInt(0), JInt(12), JString("1")}}
    \cup {EnumRecord("E1", TRUE, 1, "Green", JInt(2))}

OffsetNames == {"OFFSET_X", "NO_OFFSET"}
OffsetRecords ==
    { <<JString("OFFSET_X"), JInt(1000)>>,
      <<JString("OFFSET_X"), JInt(-1)>> }

(* the names the getters are called with *)
MemberQueries == {<<"A", "BC">>, <<"AB", "C">>, <<"A", "C">>}
EnumQueries == {<<"E", -1>>, <<"E", 0>>, <<"E", 12>>}

FetchFailures == {"transport", "parse"}

NoInput == [kind |-> "none"]
NoCall == [call |-> "none"]
FreshContrib == [sizes |-> {}, members |-> {}, member_records |-> 0, pairs |-> {},
                 before |-> DOMAIN class_member_map]

-----------------------------------------------------------------------------
(* DSAPI::new: the object with its four maps empty. *)
Init ==
    /\ class_member_map = EmptyMap
    /\ class_size_map = EmptyMap
    /\ enum_name_map = EmptyMap
    /\ offset_map = EmptyMap
    /\ pc = "new"
    /\ doc = "none"
    /\ version = 0
    /\ input = NoInput
    /\ ret = NoCall
    /\ ingested = [members |-> {}, enums |-> {}]
    /\ contrib = FreshContrib
    /\ completed = FALSE
    /\ builds = 0
    /\ records = 0

(* download_url(..).expect(..) and serde_json::from_str(..).expect(..) of  *)
(* document d: either fails and panics, or the document's loop starts.     *)
Fetch(d, v) ==
    /\ doc' = d
    /\ contrib' = FreshContrib
    /\ UNCHANGED <<tables, ingested, completed, records>>
    /\ \/ /\ pc' = "ingest"
          /\ version' = v
          /\ input' = [kind |-> "fetch", outcome |-> "ok"]
       \/ /\ pc' = "panicked"
          /\ version' = 0
          /\ \E f \in FetchFailures : input' = [kind |-> "fetch", outcome |-> f]

(* The panic of a record's step: download_content unwinds, the maps stay. *)
PanicAt(rec) ==
    /\ pc' = "panicked"
    /\ input' = rec
    /\ records' = records + 1
    /\ UNCHANGED <<tables, doc, version, ret, ingested, contrib, completed, builds>>

(* The call of download_content, up to the loop over ClassesInfo:          *)
(* lines 127-142.  Nothing in DSAPI keeps it from being called again.      *)
DownloadClassesInfo ==
    /\ pc \in {"new", "done", "panicked"}
    /\ builds < MaxBuilds
    /\ builds' = builds + 1
    /\ \E v \in Versions :
          /\ Fetch("ClassesInfo", v)
          /\ ret' = NoCall

(* One record of the loop of parse_class_info: lines 65-113, called for    *)
(* ClassesInfo (line 142) and for StructsInfo (line 150).                  *)
ParseClassRecord ==
    /\ pc = "ingest"
    /\ doc \in {"ClassesInfo", "StructsInfo"}
    /\ records < MaxRecords
    /\ \E rec \in ClassRecords :
          LET r == class_record(version, rec) IN
          \/ /\ r = Panic
             /\ PanicAt(rec)
          \/ /\ r.kind = "Size"
             /\ class_size_map' = MapInsert(class_size_map, rec.class_name, r.val)
             /\ contrib' = [contrib EXCEPT !.sizes = @ \cup {rec.class_name}]
             /\ input' = rec
             /\ records' = records + 1
             /\ UNCHANGED <<class_member_map, enum_name_map, offset_map, pc, doc,
                            version, ret, ingested, completed, builds>>
          \/ /\ r.kind = "Skip"
             /\ input' = rec
             /\ records' = records + 1
             /\ UNCHANGED <<tables, pc, doc, version, ret, ingested, contrib,
                            completed, builds>>
          \/ /\ r.kind = "Member"
             /\ class_member_map' = MapInsert(class_member_map, r.val.key, r.val.info)
             /\ ingested' = [ingested EXCEPT !.members = @ \cup
                                {[class_name |-> rec.class_name, member |-> rec.key,
                                  bitfield_a |-> (version = VersionA
                                                  /\ Len(rec.value.a) = 4)]}]
             /\ contrib' = [contrib EXCEPT !.members = @ \cup {r.val.key},
                                           !.member_records = @ + 1,
                                           !.pairs = @ \cup {<<rec.class_name, rec.key>>}]
             /\ input' = rec
             /\ records' = records + 1
             /\ UNCHANGED <<class_size_map, enum_name_map, offset_map, pc, doc,
                            version, ret, completed, builds>>

(* The end of the ClassesInfo loop and the fetch of StructsInfo: 145-150. *)
DownloadStructsInfo ==
    /\ pc = "ingest"
    /\ doc = "ClassesInfo"
    /\ \E v \in Versions : Fetch("StructsInfo", v)
    /\ UNCHANGED <<ret, builds>>

(* The end of the StructsInfo loop and the fetch of EnumsInfo: 153-157.    *)
(* The version of this document and of the next is parsed and not read.    *)
DownloadEnumsInfo ==
    /\ pc = "ingest"
    /\ doc = "StructsInfo"
    /\ Fetch("EnumsInfo", 0)
    /\ UNCHANGED <<ret, builds>>

(* One entry of the loop over EnumsInfo: lines 159-171. *)
ParseEnumEntry ==
    /\ pc = "ingest"
    /\ doc = "EnumsInfo"
    /\ records < MaxRecords
    /\ \E rec \in EnumRecords :
          LET r == enum_entry(rec) IN
          \/ /\ r = Panic
             /\ PanicAt(rec)
          \/ /\ r.kind = "Returned"
             /\ enum_name_map' = MapInsert(enum_name_map, r.val.key, r.val.name)
             /\ ingested' = [ingested EXCEPT !.enums = @ \cup
                                {[enum_name |-> rec.enum_name, value |-> rec.value.v,
                                  name |-> rec.name]}]
             /\ input' = rec
             /\ records' = records + 1
             /\ UNCHANGED <<class_member_map, class_size_map, offset_map, pc, doc,
                            version, ret, contrib, completed, builds>>

(* The end of the EnumsInfo loop and the fetch of OffsetsInfo: 190-194. *)
DownloadOffsetsInfo ==
    /\ pc = "ingest"
    /\ doc = "EnumsInfo"
    /\ Fetch("OffsetsInfo", 0)
    /\ UNCHANGED <<ret, builds>>

(* One element of the loop over OffsetsInfo: lines 196-198. *)
ParseOffset ==
    /\ pc = "ingest"
    /\ doc = "OffsetsInfo"
    /\ records < MaxRecords
    /\ \E offset \in OffsetRecords :
          LET r == offset_entry(offset)
              rec == [kind |-> "offset", value |-> offset]
          IN
          \/ /\ r = Panic
             /\ PanicAt(rec)
          \/ /\ r.kind = "Returned"
             /\ offset_map' = MapInsert(offset_map, r.val.key, r.val.val)
             /\ input' = rec
             /\ records' = records + 1
             /\ UNCHANGED <<class_member_map, class_size_map, enum_name_map, pc, doc,
                            version, ret, ingested, contrib, completed, builds>>

(* Ok(()) : line 203. *)
ReturnOk ==
    /\ pc = "ingest"
    /\ doc = "OffsetsInfo"
    /\ pc' = "done"
    /\ completed' = TRUE
    /\ UNCHANGED <<tables, doc, version, input, ret, ingested, contrib, builds, records>>

(* The getters take &self and test nothing: they can be called on any      *)
(* DSAPI that download_content is not running on, also one it has not      *)
(* been called on and one whose download_content panicked and that the     *)
(* caller still holds (catch_unwind, a recovered poisoned lock, a drop).   *)
Queryable == pc \in {"new", "done", "panicked"}

(* A call of a getter: ret records the call and its result.  A getter      *)
(* changes nothing of the object, so the calls between two calls of        *)
(* download_content see the same tables whatever their order: ret keeps    *)
(* one of them, any one.                                                   *)
Query(call) ==
    /\ Queryable
    /\ ret = NoCall
    /\ ret' = call
    /\ UNCHANGED <<tables, pc, doc, version, input, ingested, contrib, completed,
                   builds, records>>

CallGetMemberOffset ==
    \E q \in MemberQueries :
        Query([call |-> "get_member_offset", a |-> q[1], b |-> q[2],
               out |-> get_member_offset(q[1], q[2])])

CallGetClassSize ==
    \E c \in ClassNames :
        Query([call |-> "get_class_size", a |-> c, b |-> "", out |-> get_class_size(c)])

CallGetEnumName ==
    \E q \in EnumQueries :
        Query([call |-> "get_enum_name", a |-> q[1], b |-> q[2],
               out |-> get_enum_name(q[1], q[2])])

CallGetOffset ==
    \E n \in OffsetNames :
        Query([call |-> "get_offset", a |-> n, b |-> "", out |-> get_offset(n)])

CallGetMemberOffsetUnchecked ==
    \E q \in MemberQueries :
        Query([call |-> "get_member_offset_unchecked", a |-> q[1], b |-> q[2],
               out |-> get_member_offset_unchecked(q[1], q[2])])

Next ==
    \/ DownloadClassesInfo
    \/ ParseClassRecord
    \/ DownloadStructsInfo
    \/ DownloadEnumsInfo
    \/ ParseEnumEntry
    \/ DownloadOffsetsInfo
    \/ ParseOffset
    \/ ReturnOk
    \/ CallGetMemberOffset
    \/ CallGetClassSize
    \/ CallGetEnumName
    \/ CallGetOffset
    \/ CallGetMemberOffsetUnchecked

Spec == Init /\ [][Next]_vars

-----------------------------------------------------------------------------
(* The claims. *)

ClassDocs == {"ClassesInfo", "StructsInfo"}

(* the last step ingested a member record of a class/struct document *)
MemberIngested ==
    /\ pc = "ingest"
    /\ input.kind = "class_record"
    /\ input.key \notin {SizeMarker, InheritMarker}

(* the last step was handed a record with a member's key and an array *)
MemberHandled ==
    /\ input.kind = "class_record"
    /\ input.group_ok
    /\ input.nkeys = 1
    /\ input.key \notin {SizeMarker, InheritMarker}
    /\ input.value.t = "arr"

(* the member name a claim counts an ingested record under *)
StoredName(e) == IF e.bitfield_a THEN SubSeq(e.member, 1, Len(e.member) - 4) ELSE e.member

(* C1: when a class/struct document of a version that is neither 10201    *)
(* nor 10202 has made download_content fail, the document has written     *)
(* nothing: no type size and no member entry.                             *)
C1_UnknownVersionWritesNothing ==
    (pc = "panicked" /\ doc \in ClassDocs /\ input.kind = "class_record"
        /\ ~KnownVersion(version))
    => (contrib.sizes = {} /\ contrib.members = {})

(* C2: under a known version a member record is stored as a bitfield when *)
(* its array has 4 (version 10201) or 5 (version 10202) elements, as a    *)
(* non-bitfield when it has one less, and every other length makes        *)
(* download_content fail.                                                 *)
C2_LengthDecides ==
    (doc \in ClassDocs /\ KnownVersion(version) /\ MemberHandled) =>
        LET len == Len(input.value.a)
            bits == IF version = VersionA THEN 4 ELSE 5
        IN /\ len \notin {bits - 1, bits} => pc = "panicked"
           /\ (len \in {bits - 1, bits} /\ pc = "ingest") =>
                 \E k \in contrib.members : class_member_map[k].is_bit = (len = bits)

(* C3: after a download_content that failed, no getter returns an entry:  *)
(* here for the first call on the object, whose tables were empty.        *)
C3_AllOrNothing ==
    ~(pc = "panicked" /\ builds = 1 /\ ret # NoCall
        /\ ret.out.kind \in {"Some", "Returned"})

(* C4, as amended: get_member_offset(T, M) returns a record exactly when  *)
(* a member record was ingested whose key, the type name followed by the  *)
(* member name (without its last 4 characters for a version-10201         *)
(* bitfield), is the string T followed by M.                              *)
C4_KeyRoundTrip ==
    \A c \in ClassNames, m \in MemberNames :
        (get_member_offset(c, m) # None)
        <=> (\E e \in ingested.members : e.class_name \o StoredName(e) = c \o m)

(* C4, as claimed: get_member_offset(T, M) returns a record exactly when  *)
(* a member record was ingested for type T and member M.                  *)
C4_PairRoundTrip ==
    \A c \in ClassNames, m \in MemberNames :
        (get_member_offset(c, m) # None)
        <=> (\E e \in ingested.members : e.class_name = c /\ StoredName(e) = m)

(* C4, witness: get_member_offset("AB", "C") has returned the record      *)
(* ingested for type "A" and member "BC".                                 *)
C4_Witness ==
    /\ pc = "done"
    /\ ret.call = "get_member_offset"
    /\ ret.a = "AB" /\ ret.b = "C"
    /\ ret.out.kind = "Some"
    /\ \A e \in ingested.members : e.class_name = "A" /\ e.member = "BC"
    /\ ingested.members # {}

(* C5, as amended: every member record of a class/struct document inserts *)
(* one entry with valid = true under its key, replacing an entry already  *)
(* there; the size marker and the inheritance marker insert none.  So the *)
(* entries a document adds are the keys of its member records that were   *)
(* not in the table before it, at most as many as its member records.     *)
C5_OneInsertPerMemberRecord ==
    /\ DOMAIN class_member_map = contrib.before \cup contrib.members
    /\ \A k \in contrib.members : class_member_map[k].valid
    /\ Cardinality(contrib.members) <= contrib.member_records
    /\ (contrib.member_records > 0) => (contrib.members # {})
    /\ \A k \in DOMAIN class_member_map, c \in ClassNames :
          k \notin {c \o SizeMarker, c \o InheritMarker}

(* C5, as claimed: the number of member entries a class/struct document   *)
(* of a known version has added is the number of its member records;      *)
(* here for a document that names no member of a type twice.              *)
C5_EntriesEqualRecords ==
    (doc \in ClassDocs /\ KnownVersion(version) /\ pc = "ingest"
        /\ Cardinality(contrib.pairs) = contrib.member_records) =>
        Cardinality(DOMAIN class_member_map) - Cardinality(contrib.before)
            = contrib.member_records

(* C5, witness: a document has ingested two member records, of type "A"   *)
(* member "BC" and of type "AB" member "C", and added one entry.          *)
C5_Witness ==
    /\ doc \in ClassDocs /\ pc = "ingest" /\ KnownVersion(version)
    /\ contrib.member_records = 2
    /\ contrib.pairs = {<<"A", "BC">>, <<"AB", "C">>}
    /\ contrib.before = {}
    /\ DOMAIN class_member_map = {"ABC"}
    /\ class_member_map["ABC"].valid

(* C6: the entry a member record has just been stored as.  Its offset is  *)
(* the 2nd and its size the 3rd element of the record's array; a          *)
(* version-10202 array of 5 is a bitfield with the 5th element as bit     *)
(* offset, under the member name; a version-10201 array of 4 is a         *)
(* bitfield with the 4th element as bit offset, under the member name     *)
(* without its last 4 characters; any other record is stored with         *)
(* is_bit = false and bit_offset = 0 under the member name.               *)
C6_Decoded ==
    MemberIngested =>
        LET a == input.value.a
            bit_a == version = VersionA /\ Len(a) = 4
            bit_b == version = VersionB /\ Len(a) = 5
            name == IF bit_a THEN SubSeq(input.key, 1, Len(input.key) - 4)
                    ELSE input.key
            k == input.class_name \o name
        IN /\ k \in DOMAIN class_member_map
           /\ class_member_map[k] =
                 [offset |-> a[2].v,
                  size |-> a[3].v,
                  is_bit |-> bit_a \/ bit_b,
                  bit_offset |-> IF bit_a THEN a[4].v ELSE IF bit_b THEN a[5].v ELSE 0,
                  valid |-> TRUE]

(* C6, witness: under version 10202, member "BC" of type "A" with the     *)
(* array [_, 16, 4, 0, 2] has been stored under "ABC" as offset 16,       *)
(* size 4, bitfield, bit offset 2, valid.                                 *)
C6_Witness ==
    /\ MemberIngested
    /\ version = VersionB
    /\ input.class_name = "A" /\ input.key = "BC" /\ input.value = Len5
    /\ "ABC" \in DOMAIN class_member_map
    /\ class_member_map["ABC"] =
          [offset |-> 16, size |-> 4, is_bit |-> TRUE, bit_offset |-> 2, valid |-> TRUE]

(* the decimal string of an enum value, as the claim has it *)
Decimal(v) == IF v < 0 THEN "-" \o NatToString(0 - v) ELSE NatToString(v)

C8_UncheckedSameOffset ==
    (pc = "done" /\ ret.call = "get_member_offset_unchecked") =>
        LET found == get_member_offset(ret.a, ret.b)
        IN IF found = None THEN ret.out = Panic
           ELSE ret.out = Returned([pow64 |-> 0, plus |-> found.val.offset])

C10_WriteOnce == [][completed => tables' = tables]_vars

====
